---- MODULE Spec2Model ----
(***************************************************************************)
(* A model of wavepad (solution1/js/wavepad.js): the bodies of the game    *)
(* world, the collision test, the bounce resolver, the goals, the human    *)
(* and the heuristic player, and the per-frame world update.               *)
(*                                                                         *)
(* Numbers handed to a constructor are JavaScript numbers: they are        *)
(* modelled as records, a finite value in half units (h = 2 * value, so    *)
(* that the halves Math.round has to decide are exact) or one of NaN,      *)
(* Infinity and -Infinity.  The fields of a constructed body are integers. *)
(***************************************************************************)
EXTENDS Integers, Sequences, FiniteSets, TLC

VARIABLES canvas, balls, players, walls, keysDown, pc, nextId, frames, prev, probe

vars == <<canvas, balls, players, walls, keysDown, pc, nextId, frames, prev, probe>>

(***************************************************************************)
(* Bounds of the model.                                                    *)
(***************************************************************************)
\* canvas.width and canvas.height of the page's canvas element
CanvasWidth == 320
CanvasHeight == 60
\* a canvas so low that a ball overlaps both goals at once
LowCanvasHeight == 16
\* frames (calls of World.prototype.update) in one run
MaxFrames == 24
\* the bodies handed to touches and to the bounce resolver on their own:
\* coordinates 0..MaxCoord, extents 1..MaxLen, speeds -MaxSpeed..MaxSpeed,
\* lists of at most MaxSurfaces surfaces
MaxCoord == 2
MaxLen == 2
MaxSpeed == 2
MaxSurfaces == 2

(***************************************************************************)
(* Program constants.                                                      *)
(***************************************************************************)
ballRadius == 8
goalYLen == 1
paddleXLen == 50
paddleYLen == 10
wallXLen == 200
dx0 == 7
maxDx == 7
moveLeftKey == 37
moveRightKey == 39
defaultDy == 3
defaultRadius == 1
defaultPaddleXLen == 20
defaultPaddleYLen == 10

(***************************************************************************)
(* JavaScript numbers.                                                     *)
(***************************************************************************)
Num(n) == [k |-> "num", h |-> 2 * n]
Half(h) == [k |-> "num", h |-> h]
NaN == [k |-> "NaN", h |-> 0]
PosInf == [k |-> "Infinity", h |-> 0]
NegInf == [k |-> "-Infinity", h |-> 0]

isFinite(v) == v.k = "num"

\* v >= 1
GeqOne(v) == \/ v.k = "Infinity"
             \/ v.k = "num" /\ v.h >= 2

\* the truthiness of a number: 0 and NaN are falsy
Truthy(v) == ~(v.k = "NaN" \/ (v.k = "num" /\ v.h = 0))

\* Math.round of a value given in half units: halves round toward +Infinity
RoundHalf(h) == (h + 1) \div 2

\* Math.round(v)
MathRound(v) == IF isFinite(v) THEN Num(RoundHalf(v.h)) ELSE v

\* 2 * v
Twice(v) == IF isFinite(v) THEN Half(2 * v.h) ELSE v

\* the integer a rounded finite number stands for
IntOf(v) == RoundHalf(v.h)

Abs(n) == IF n < 0 THEN -n ELSE n

(***************************************************************************)
(* WorldObject                                                             *)
(***************************************************************************)
Error == [kind |-> "Error"]

IsError(o) == o.kind = "Error"

\* WorldObject that does not check y
WorldObject_noYCheck(x, y, xLen, yLen) ==
    IF ~isFinite(x) THEN Error
    ELSE IF ~(isFinite(xLen) /\ GeqOne(xLen)) THEN Error
    ELSE IF ~(isFinite(yLen) /\ GeqOne(yLen)) THEN Error
    ELSE [kind |-> "WorldObject",
          x |-> IntOf(x), y |-> IntOf(y),
          xLen |-> IntOf(xLen), yLen |-> IntOf(yLen),
          dx |-> 0, dy |-> 0]

WorldObject(x, y, xLen, yLen) ==
    IF ~isFinite(x) THEN Error
    ELSE IF ~isFinite(y) THEN Error
    ELSE IF ~(isFinite(xLen) /\ GeqOne(xLen)) THEN Error
    ELSE IF ~(isFinite(yLen) /\ GeqOne(yLen)) THEN Error
    ELSE [kind |-> "WorldObject",
          x |-> IntOf(x), y |-> IntOf(y),
          xLen |-> IntOf(xLen), yLen |-> IntOf(yLen),
          dx |-> 0, dy |-> 0]

\* xMin with the sign of xMax
xMin_plus(o) == RoundHalf(2 * o.x + o.xLen)

xMin(o) == RoundHalf(2 * o.x - o.xLen)

xMax(o) == RoundHalf(2 * o.x + o.xLen)

yMin(o) == RoundHalf(2 * o.y - o.yLen)

yMax(o) == RoundHalf(2 * o.y + o.yLen)

\* touches with the first comparison made strict
touches_strict(this, obj) ==
    /\ (xMax(obj) > xMin(this)) /\ (xMin(obj) <= xMax(this))
    /\ (yMax(obj) >= yMin(this)) /\ (yMin(obj) <= yMax(this))

\* this.touches(obj)
touches(this, obj) ==
    /\ (xMax(obj) >= xMin(this)) /\ (xMin(obj) <= xMax(this))
    /\ (yMax(obj) >= yMin(this)) /\ (yMin(obj) <= yMax(this))

\* xGradientAt that gives a wall a slope of 1
xGradientAt_wallSlope(s, at) == IF s.kind = "Paddle" THEN s.dx ELSE 1

\* surface.xGradientAt(...) and surface.yGradientAt(...): a paddle's is its
\* dx, every other body's is 0
xGradientAt(s, at) == IF s.kind = "Paddle" THEN s.dx ELSE 0

yGradientAt(s, at) == IF s.kind = "Paddle" THEN s.dx ELSE 0

\* horizontalBounceOn that always sends the body to the left ("Move left")
horizontalBounceOn_moveLeft(this, s) ==
    IF touches(this, s)
    THEN [this EXCEPT
            !.dx = IF \/ (this.x <= s.x /\ this.dx >= 0)
                      \/ (this.x > s.x /\ this.dx <= 0)
                   THEN -1 * Abs(this.dx) ELSE this.dx,
            !.dy = this.dy - xGradientAt(s, this.y)]
    ELSE this

\* one round of the loop of horizontalBounce
horizontalBounceOn(this, s) ==
    IF touches(this, s)
    THEN [this EXCEPT
            !.dx = IF \/ (this.x <= s.x /\ this.dx >= 0)
                      \/ (this.x > s.x /\ this.dx <= 0)
                   THEN -1 * this.dx ELSE this.dx,
            !.dy = this.dy - xGradientAt(s, this.y)]
    ELSE this

RECURSIVE horizontalBounceFrom(_, _, _)
horizontalBounceFrom(this, surfaces, i) ==
    IF i > Len(surfaces) THEN this
    ELSE horizontalBounceFrom(horizontalBounceOn(this, surfaces[i]), surfaces, i + 1)

horizontalBounce(this, surfaces) == horizontalBounceFrom(this, surfaces, 1)

\* verticalBounceOn without the "moving away" guard: the speed is reversed
\* at every surface touched
verticalBounceOn_noGuard(this, s) ==
    IF touches(this, s)
    THEN [this EXCEPT
            !.dy = -1 * this.dy,
            !.dx = this.dx - yGradientAt(s, this.x)]
    ELSE this

\* verticalBounceOn that applies the gradient only when it reverses dy
verticalBounceOn_gradientOnFlip(this, s) ==
    IF touches(this, s)
    THEN IF \/ (this.y <= s.y /\ this.dy >= 0)
            \/ (this.y > s.y /\ this.dy <= 0)
         THEN [this EXCEPT !.dy = -1 * this.dy,
                           !.dx = this.dx - yGradientAt(s, this.x)]
         ELSE this
    ELSE this

\* one round of the loop of verticalBounce
verticalBounceOn(this, s) ==
    IF touches(this, s)
    THEN [this EXCEPT
            !.dy = IF \/ (this.y <= s.y /\ this.dy >= 0)
                      \/ (this.y > s.y /\ this.dy <= 0)
                   THEN -1 * this.dy ELSE this.dy,
            !.dx = this.dx - yGradientAt(s, this.x)]
    ELSE this

RECURSIVE verticalBounceFrom(_, _, _)
verticalBounceFrom(this, surfaces, i) ==
    IF i > Len(surfaces) THEN this
    ELSE verticalBounceFrom(verticalBounceOn(this, surfaces[i]), surfaces, i + 1)

verticalBounce(this, surfaces) == verticalBounceFrom(this, surfaces, 1)

(***************************************************************************)
(* Ball, Paddle, walls, Goal                                               *)
(***************************************************************************)
\* Ball without its initial speed
Ball_atRest(x, y, radius) ==
    LET r == IF Truthy(radius) /\ GeqOne(radius) THEN MathRound(radius)
             ELSE Num(defaultRadius)
        o == WorldObject(x, y, Twice(r), Twice(r))
    IN IF IsError(o) THEN Error
       ELSE [kind |-> "Ball", x |-> o.x, y |-> o.y, xLen |-> o.xLen,
             yLen |-> o.yLen, dx |-> 0, dy |-> 0, radius |-> IntOf(r)]

Ball(x, y, radius) ==
    LET r == IF Truthy(radius) /\ GeqOne(radius) THEN MathRound(radius)
             ELSE Num(defaultRadius)
        o == WorldObject(x, y, Twice(r), Twice(r))
    IN IF IsError(o) THEN Error
       ELSE [kind |-> "Ball", x |-> o.x, y |-> o.y, xLen |-> o.xLen,
             yLen |-> o.yLen, dx |-> 0, dy |-> defaultDy, radius |-> IntOf(r)]

Paddle(x, y, xLen, yLen) ==
    LET xl == IF Truthy(xLen) /\ GeqOne(xLen) THEN MathRound(xLen)
              ELSE Num(defaultPaddleXLen)
        yl == IF Truthy(yLen) /\ GeqOne(yLen) THEN MathRound(yLen)
              ELSE Num(defaultPaddleYLen)
        o == WorldObject(x, y, xl, yl)
    IN IF IsError(o) THEN Error ELSE [o EXCEPT !.kind = "Paddle"]

LeftWall(x, y, xLen, yLen) ==
    LET o == WorldObject(x, y, xLen, yLen)
    IN IF IsError(o) THEN Error ELSE [o EXCEPT !.kind = "LeftWall"]

RightWall(x, y, xLen, yLen) ==
    LET o == WorldObject(x, y, xLen, yLen)
    IN IF IsError(o) THEN Error ELSE [o EXCEPT !.kind = "RightWall"]

Goal(x, y, xLen, yLen) ==
    LET o == WorldObject(x, y, xLen, yLen)
    IN IF IsError(o) THEN Error
       ELSE [kind |-> "Goal", x |-> o.x, y |-> o.y, xLen |-> o.xLen,
             yLen |-> o.yLen, dx |-> 0, dy |-> 0, balls |-> <<>>]

countBalls(goal) == Len(goal.balls)

\* Paddle.prototype.update
PaddleUpdate(this, surfaces) ==
    LET b == horizontalBounce(this, surfaces)
    IN [b EXCEPT !.x = b.x + b.dx, !.dy = 0]

\* Ball.prototype.update
BallUpdate(this, verticalSurfaces, horizontalSurfaces) ==
    LET h == horizontalBounce(this, verticalSurfaces)
        v == verticalBounce(h, horizontalSurfaces)
    IN [v EXCEPT !.x = v.x + v.dx, !.y = v.y + v.dy]

\* removeBall that removes nothing
removeBall_none(list, index) == list

\* World.prototype.removeBall: splice(index, 1), index counted from 1 here.
\* As splice does, an index before the list counts from its end (and stops
\* at the first element), and an index past the end removes nothing.
removeBall(list, index) ==
    LET start == IF index < 1
                 THEN (IF Len(list) + index < 1 THEN 1 ELSE Len(list) + index)
                 ELSE index
    IN IF start > Len(list) THEN list
       ELSE [j \in 1..(Len(list) - 1) |->
                IF j < start THEN list[j] ELSE list[j + 1]]

\* Goal.prototype.catchBalls: the loop goes on at index i + 1 of the
\* shortened list after a removal
RECURSIVE catchBallsFrom(_, _, _)
catchBallsFrom(goal, list, i) ==
    IF i > Len(list) THEN [goal |-> goal, balls |-> list]
    ELSE IF touches(list[i], goal)
         THEN catchBallsFrom([goal EXCEPT !.balls = Append(@, list[i].id)],
                             removeBall(list, i), i + 1)
         ELSE catchBallsFrom(goal, list, i + 1)

\* catchBalls that looks at no ball
catchBalls_none(goal, list) == [goal |-> goal, balls |-> list]

catchBalls(goal, list) == catchBallsFrom(goal, list, 1)

(***************************************************************************)
(* World                                                                   *)
(***************************************************************************)
xLenOf(c) == c.width

yLenOf(c) == c.height

xMiddle(c) == RoundHalf(c.width)

yMiddle(c) == RoundHalf(c.height)

\* the ball World.prototype.addBall pushes; id stands for the identity of
\* the new object
NewBall(c, id) ==
    LET b == Ball(Num(xMiddle(c)), Num(yMiddle(c)), Num(ballRadius))
    IN [kind |-> b.kind, x |-> b.x, y |-> b.y, xLen |-> b.xLen,
        yLen |-> b.yLen, dx |-> b.dx, dy |-> b.dy, radius |-> b.radius,
        id |-> id]

addBall(list, c, id) == Append(list, NewBall(c, id))

InitPlayers(c) ==
    << [kind |-> "Player",
        body |-> Paddle(Num(xMiddle(c)),
                        Num(RoundHalf(paddleYLen) + goalYLen),
                        Num(paddleXLen), Num(paddleYLen)),
        goal |-> Goal(Num(xMiddle(c)), Num(1), Num(xLenOf(c)), Num(goalYLen))],
       [kind |-> "Computer",
        body |-> Paddle(Num(xMiddle(c)),
                        Num(yLenOf(c) - RoundHalf(paddleYLen) - goalYLen),
                        Num(paddleXLen), Num(paddleYLen)),
        goal |-> Goal(Num(xMiddle(c)), Num(yLenOf(c) - 1), Num(xLenOf(c)),
                      Num(goalYLen))] >>

InitWalls(c) ==
    << LeftWall(Num(0), Num(yMiddle(c)), Num(wallXLen), Num(yLenOf(c))),
       RightWall(Num(xLenOf(c) - 1), Num(yMiddle(c)), Num(wallXLen),
                 Num(yLenOf(c))) >>

getVerticalSurfaces == walls

getHorizontalSurfaces == [i \in 1..Len(players) |-> players[i].body]

getGoals == [i \in 1..Len(players) |-> players[i].goal]

Canvases == { [width |-> CanvasWidth, height |-> CanvasHeight],
              [width |-> CanvasWidth, height |-> LowCanvasHeight] }

Keys == {moveLeftKey, moveRightKey}

NoProbe == [op |-> "none"]

Snapshot == [balls |-> balls, players |-> players]

\* the world after new World(canvas, context) and world.init()
Init ==
    /\ canvas \in Canvases
    /\ balls = addBall(<<>>, canvas, 1)
    /\ nextId = 2
    /\ players = InitPlayers(canvas)
    /\ walls = InitWalls(canvas)
    /\ keysDown = {}
    /\ pc = "idle"
    /\ prev = [balls |-> balls, players |-> players]
    /\ frames = 0
    /\ probe = NoProbe

\* the keydown listener
KeyDown ==
    /\ pc = "idle"
    /\ \E k \in Keys : keysDown' = keysDown \cup {k}
    /\ UNCHANGED <<canvas, balls, players, walls, pc, nextId, frames, prev, probe>>

\* the keyup listener
KeyUp ==
    /\ pc = "idle"
    /\ \E k \in Keys : keysDown' = keysDown \ {k}
    /\ UNCHANGED <<canvas, balls, players, walls, pc, nextId, frames, prev, probe>>

\* the test of World.prototype.update that lets a second ball in
NeedsBall_second(list) == Len(list) < 2

\* the test of World.prototype.update: this.balls.length < 1
NeedsBall(list) == Len(list) < 1

\* World.prototype.update, its first statement: a ball is added when none
\* is left; the frame loop runs limit frames
EnsureBallUpTo(limit) ==
    /\ pc = "idle"
    /\ frames < limit
    /\ frames' = frames + 1
    /\ IF NeedsBall(balls)
       THEN /\ balls' = addBall(balls, canvas, nextId)
            /\ nextId' = nextId + 1
       ELSE UNCHANGED <<balls, nextId>>
    /\ prev' = Snapshot
    /\ pc' = "walls"
    /\ UNCHANGED <<canvas, players, walls, keysDown, probe>>

EnsureBall == EnsureBallUpTo(MaxFrames)

\* LeftWall.prototype.update and RightWall.prototype.update: empty bodies
WallUpdate(this) == this

UpdateWalls ==
    /\ pc = "walls"
    /\ walls' = [i \in 1..Len(walls) |-> WallUpdate(walls[i])]
    /\ prev' = Snapshot
    /\ pc' = "player"
    /\ UNCHANGED <<canvas, balls, players, keysDown, nextId, frames, probe>>

\* the speed Player.prototype.update computes from the keys held down; the
\* for-in loop visits the integer keys in ascending order, so the right key
\* is seen last; any other key takes the default branch and changes nothing
KeySpeed(keys) ==
    IF moveRightKey \in keys THEN dx0
    ELSE IF moveLeftKey \in keys THEN -1 * dx0
    ELSE 0

\* Player.prototype.update
PlayerUpdateOf(p, keys, surfaces, list) ==
    LET b0 == [p.body EXCEPT !.dx = KeySpeed(keys), !.dy = 0]
        b1 == PaddleUpdate(b0, surfaces)
        c == catchBalls(p.goal, list)
    IN [player |-> [p EXCEPT !.body = b1, !.goal = c.goal], balls |-> c.balls]

PlayerUpdate ==
    /\ pc = "player"
    /\ LET r == PlayerUpdateOf(players[1], keysDown, getVerticalSurfaces, balls)
       IN /\ players' = [players EXCEPT ![1] = r.player]
          /\ balls' = r.balls
    /\ prev' = Snapshot
    /\ pc' = "computer"
    /\ UNCHANGED <<canvas, walls, keysDown, nextId, frames, probe>>

\* the threshold of Computer.prototype.update
minTrackingDistance(c) == (2 * yLenOf(c) + 5) \div 10

\* Math.round(0.6 * this.maxDx)
strikeDx == (6 * maxDx + 5) \div 10

\* the speed Computer.prototype.update chooses before it limits it
ComputerAim(body, list, c) ==
    IF Len(list) > 0
    THEN LET ball == list[1]
             distanceToBall == body.y - ball.y
         IN IF ball.dy > 0 /\ distanceToBall > minTrackingDistance(c)
            THEN ball.x - body.x
            ELSE IF ball.dy > 0 /\ Abs(ball.dx) > 0 /\ touches(body, ball)
                 THEN IF ball.dx > 0 THEN -1 * strikeDx ELSE strikeDx
                 ELSE body.dx
    ELSE body.dx

\* no limit on the speed
LimitSpeed_none(d) == d

\* a limit on the speed to the right only
LimitSpeed_rightOnly(d) == IF d > maxDx THEN maxDx ELSE d

\* "Limit x speed"
LimitSpeed(d) ==
    IF Abs(d) > maxDx THEN (IF d > 0 THEN maxDx ELSE -1 * maxDx) ELSE d

\* Computer.prototype.update
ComputerUpdateOf(p, surfaces, list, c) ==
    LET b0 == [p.body EXCEPT !.dx = LimitSpeed(ComputerAim(p.body, list, c))]
        b1 == PaddleUpdate(b0, surfaces)
        b2 == [b1 EXCEPT !.dy = 0]
        g == catchBalls(p.goal, list)
    IN [player |-> [p EXCEPT !.body = b2, !.goal = g.goal], balls |-> g.balls]

ComputerUpdate ==
    /\ pc = "computer"
    /\ LET r == ComputerUpdateOf(players[2], getVerticalSurfaces, balls, canvas)
       IN /\ players' = [players EXCEPT ![2] = r.player]
          /\ balls' = r.balls
    /\ prev' = Snapshot
    /\ pc' = "balls"
    /\ UNCHANGED <<canvas, walls, keysDown, nextId, frames, probe>>

\* World.prototype.update, its last loop; the frame is rendered after it
UpdateBalls ==
    /\ pc = "balls"
    /\ balls' = [i \in 1..Len(balls) |->
                    BallUpdate(balls[i], getVerticalSurfaces, getHorizontalSurfaces)]
    /\ prev' = Snapshot
    /\ pc' = "idle"
    /\ UNCHANGED <<canvas, players, walls, keysDown, nextId, frames, probe>>

Next ==
    \/ KeyDown
    \/ KeyUp
    \/ EnsureBall
    \/ UpdateWalls
    \/ PlayerUpdate
    \/ ComputerUpdate
    \/ UpdateBalls

Spec == Init /\ [][Next]_vars

(***************************************************************************)
(* The functions on their own: a call is drawn by InitCalls and made by    *)
(* one of the actions below, which records the arguments and the result.   *)
(***************************************************************************)
\* the numbers handed to a constructor
JsValues == {NaN, PosInf, NegInf, Half(-1), Num(0), Half(1), Num(1), Half(3), Num(2)}

ConstructorArgs ==
    [op : {"new"}, x : JsValues, y : JsValues, xLen : JsValues, yLen : JsValues]

\* the moving body and the surfaces of a horizontal bounce: walls level with
\* the body (y = 0) or out of its reach (y = 2), and moving paddles level
\* with it
HBounceBodies ==
    [kind : {"Ball"}, x : 0..MaxCoord, y : {0}, xLen : {1}, yLen : {1},
     dx : (-MaxSpeed)..MaxSpeed, dy : {-1, 0, 1}]

HBounceSurfaces ==
    [kind : {"LeftWall"}, x : 0..MaxCoord, y : {0, 2}, xLen : {1}, yLen : {1},
     dx : {0}, dy : {0}]
    \cup
    [kind : {"Paddle"}, x : 0..MaxCoord, y : {0}, xLen : {1}, yLen : {1},
     dx : {1}, dy : {0}]

\* the same for a vertical bounce, with the axes exchanged
VBounceBodies ==
    [kind : {"Ball"}, x : {0}, y : 0..MaxCoord, xLen : {1}, yLen : {1},
     dx : {-1, 0, 1}, dy : (-MaxSpeed)..MaxSpeed]

VBounceSurfaces ==
    [kind : {"LeftWall"}, x : {0, 2}, y : 0..MaxCoord, xLen : {1}, yLen : {1},
     dx : {0}, dy : {0}]
    \cup
    [kind : {"Paddle"}, x : {0}, y : 0..MaxCoord, xLen : {1}, yLen : {1},
     dx : {1}, dy : {0}]

ListsOf(S) == UNION { [1..n -> S] : n \in 0..MaxSurfaces }

BounceArgs ==
    [op : {"hbounce"}, this : HBounceBodies, surfaces : ListsOf(HBounceSurfaces)]
    \cup
    [op : {"vbounce"}, this : VBounceBodies, surfaces : ListsOf(VBounceSurfaces)]

\* the two bodies of a collision test
TouchBodies ==
    [kind : {"WorldObject"}, x : 0..MaxCoord, y : 0..MaxCoord,
     xLen : 1..MaxLen, yLen : 1..MaxLen, dx : {0}, dy : {0}]

TouchArgs == [op : {"collide"}, a : TouchBodies, b : TouchBodies]

InitCalls ==
    /\ canvas = [width |-> CanvasWidth, height |-> CanvasHeight]
    /\ balls = <<>>
    /\ nextId = 1
    /\ players = InitPlayers(canvas)
    /\ walls = InitWalls(canvas)
    /\ keysDown = {}
    /\ pc = "call"
    /\ frames = 0
    /\ prev = [balls |-> balls, players |-> players]
    /\ probe \in ConstructorArgs \cup BounceArgs \cup TouchArgs

game == <<canvas, balls, players, walls, keysDown, pc, nextId, frames, prev>>

Constructed(name, result) ==
    probe' = [op |-> name, x |-> probe.x, y |-> probe.y, xLen |-> probe.xLen,
              yLen |-> probe.yLen, result |-> result]

NewWorldObject ==
    /\ probe.op = "new"
    /\ Constructed("WorldObject", WorldObject(probe.x, probe.y, probe.xLen, probe.yLen))
    /\ UNCHANGED game

\* new Ball(x, y, radius): the third number is the radius
NewBallCall ==
    /\ probe.op = "new"
    /\ probe.yLen = probe.xLen
    /\ Constructed("Ball", Ball(probe.x, probe.y, probe.xLen))
    /\ UNCHANGED game

NewPaddle ==
    /\ probe.op = "new"
    /\ Constructed("Paddle", Paddle(probe.x, probe.y, probe.xLen, probe.yLen))
    /\ UNCHANGED game

NewLeftWall ==
    /\ probe.op = "new"
    /\ Constructed("LeftWall", LeftWall(probe.x, probe.y, probe.xLen, probe.yLen))
    /\ UNCHANGED game

NewRightWall ==
    /\ probe.op = "new"
    /\ Constructed("RightWall", RightWall(probe.x, probe.y, probe.xLen, probe.yLen))
    /\ UNCHANGED game

NewGoal ==
    /\ probe.op = "new"
    /\ Constructed("Goal", Goal(probe.x, probe.y, probe.xLen, probe.yLen))
    /\ UNCHANGED game

HorizontalBounceCall ==
    /\ probe.op = "hbounce"
    /\ probe' = [op |-> "horizontalBounce", this |-> probe.this,
                 surfaces |-> probe.surfaces,
                 result |-> horizontalBounce(probe.this, probe.surfaces)]
    /\ UNCHANGED game

VerticalBounceCall ==
    /\ probe.op = "vbounce"
    /\ probe' = [op |-> "verticalBounce", this |-> probe.this,
                 surfaces |-> probe.surfaces,
                 result |-> verticalBounce(probe.this, probe.surfaces)]
    /\ UNCHANGED game

TouchesCall ==
    /\ probe.op = "collide"
    /\ probe' = [op |-> "touches", a |-> probe.a, b |-> probe.b,
                 ab |-> touches(probe.a, probe.b),
                 ba |-> touches(probe.b, probe.a)]
    /\ UNCHANGED game

NextCalls ==
    \/ NewWorldObject
    \/ NewBallCall
    \/ NewPaddle
    \/ NewLeftWall
    \/ NewRightWall
    \/ NewGoal
    \/ HorizontalBounceCall
    \/ VerticalBounceCall
    \/ TouchesCall

SpecCalls == InitCalls /\ [][NextCalls]_vars

(***************************************************************************)
(* Properties of the functions on their own (SpecCalls).                   *)
(***************************************************************************)
MovesTowardX(b, s) == (b.x <= s.x /\ b.dx > 0) \/ (b.x > s.x /\ b.dx < 0)

MovesAwayX(b, s) == (b.x <= s.x /\ b.dx < 0) \/ (b.x > s.x /\ b.dx > 0)

MovesTowardY(b, s) == (b.y <= s.y /\ b.dy > 0) \/ (b.y > s.y /\ b.dy < 0)

MovesAwayY(b, s) == (b.y <= s.y /\ b.dy < 0) \/ (b.y > s.y /\ b.dy > 0)

\* the places in a list of the surfaces a body touches
Touched(b, surfaces) == {i \in DOMAIN surfaces : touches(b, surfaces[i])}

\* the centres of all the surfaces the body touches are on one side of it
SameSideX(b, surfaces) ==
    \A i, j \in Touched(b, surfaces) :
        (b.x <= surfaces[i].x) <=> (b.x <= surfaces[j].x)

SameSideY(b, surfaces) ==
    \A i, j \in Touched(b, surfaces) :
        (b.y <= surfaces[i].y) <=> (b.y <= surfaces[j].y)

\* C2 as stated: after horizontalBounce (verticalBounce) the body's dx (dy)
\* points away from the centre of every surface of the list it touches and
\* was moving toward, whatever the list.
C2_AwayFromEverySurface ==
    /\ probe.op = "horizontalBounce" =>
          \A i \in Touched(probe.this, probe.surfaces) :
              MovesTowardX(probe.this, probe.surfaces[i])
                  => MovesAwayX(probe.result, probe.surfaces[i])
    /\ probe.op = "verticalBounce" =>
          \A i \in Touched(probe.this, probe.surfaces) :
              MovesTowardY(probe.this, probe.surfaces[i])
                  => MovesAwayY(probe.result, probe.surfaces[i])

\* C2 amended: the same, for the calls in which the centres of all the
\* surfaces the body touches lie on the same side of the body (as when it
\* touches a single surface).
C2_AwayFromSurfacesOnOneSide ==
    /\ (probe.op = "horizontalBounce" /\ SameSideX(probe.this, probe.surfaces)) =>
          \A i \in Touched(probe.this, probe.surfaces) :
              MovesTowardX(probe.this, probe.surfaces[i])
                  => MovesAwayX(probe.result, probe.surfaces[i])
    /\ (probe.op = "verticalBounce" /\ SameSideY(probe.this, probe.surfaces)) =>
          \A i \in Touched(probe.this, probe.surfaces) :
              MovesTowardY(probe.this, probe.surfaces[i])
                  => MovesAwayY(probe.result, probe.surfaces[i])

\* a vertical bounce of a body that touched two surfaces on one side of it
\* and was moving toward them
C2_Witness ==
    /\ probe.op = "verticalBounce"
    /\ Cardinality(Touched(probe.this, probe.surfaces)) = 2
    /\ SameSideY(probe.this, probe.surfaces)
    /\ \A i \in Touched(probe.this, probe.surfaces) :
           MovesTowardY(probe.this, probe.surfaces[i])
    /\ probe.result.dy = -1 * probe.this.dy

\* an extent below 1
LessThanOne(v) == \/ v.k = "-Infinity"
                  \/ v.k = "num" /\ v.h < 2

IsConstruction ==
    probe.op \in {"WorldObject", "Ball", "Paddle", "LeftWall", "RightWall", "Goal"}

\* the extents a construction asks for: a ball's are twice its radius
AskedXLen == IF probe.op = "Ball" THEN Twice(probe.xLen) ELSE probe.xLen

AskedYLen == IF probe.op = "Ball" THEN Twice(probe.xLen) ELSE probe.yLen

\* C4 as stated: every constructor fails on a non-finite x or y and on an
\* extent below 1.
C4_EveryConstructorFails ==
    (/\ IsConstruction
     /\ \/ ~isFinite(probe.x)
        \/ ~isFinite(probe.y)
        \/ LessThanOne(AskedXLen)
        \/ LessThanOne(AskedYLen))
    => IsError(probe.result)

\* C4 amended: every constructor fails on a non-finite x or y; WorldObject,
\* LeftWall, RightWall and Goal fail on an extent below 1; Ball and Paddle do
\* not: with x and y finite, a radius below 1 becomes 1, a paddle's xLen
\* below 1 becomes 20 and its yLen below 1 becomes 10, and a body is
\* returned unless the paddle's other extent is Infinity.
C4_DefaultsForBallAndPaddle ==
    /\ (IsConstruction /\ (~isFinite(probe.x) \/ ~isFinite(probe.y)))
           => IsError(probe.result)
    /\ (/\ probe.op \in {"WorldObject", "LeftWall", "RightWall", "Goal"}
        /\ (LessThanOne(probe.xLen) \/ LessThanOne(probe.yLen)))
           => IsError(probe.result)
    /\ (/\ probe.op = "Ball"
        /\ isFinite(probe.x) /\ isFinite(probe.y)
        /\ LessThanOne(probe.xLen))
           => /\ ~IsError(probe.result)
              /\ probe.result.radius = defaultRadius
              /\ probe.result.xLen = 2 * defaultRadius
              /\ probe.result.yLen = 2 * defaultRadius
    /\ (/\ probe.op = "Paddle"
        /\ isFinite(probe.x) /\ isFinite(probe.y)
        /\ (LessThanOne(probe.xLen) \/ LessThanOne(probe.yLen))
        /\ probe.xLen # PosInf /\ probe.yLen # PosInf)
           => /\ ~IsError(probe.result)
              /\ LessThanOne(probe.xLen) => probe.result.xLen = defaultPaddleXLen
              /\ LessThanOne(probe.yLen) => probe.result.yLen = defaultPaddleYLen

\* a paddle asked for with xLen 0.5 and a non-finite y: an error; its
\* counterpart with a finite y is built 20 wide
C4_Witness ==
    /\ probe.op = "Paddle"
    /\ probe.xLen = Half(1)
    /\ probe.yLen = Num(2)
    /\ probe.x = Num(1)
    /\ probe.y = Half(3)
    /\ ~IsError(probe.result)
    /\ probe.result.xLen = defaultPaddleXLen
    /\ probe.result.y = 2

\* the walls of a list
AllWalls(surfaces) ==
    \A i \in DOMAIN surfaces : surfaces[i].kind \in {"LeftWall", "RightWall"}

\* C7: a horizontalBounce of a body that touches exactly one wall of the
\* list and moves toward it with dx = v leaves it with dx = -v and with the
\* dy and the position it had.
C7_WallBounceNegatesDx ==
    (/\ probe.op = "horizontalBounce"
     /\ AllWalls(probe.surfaces)
     /\ Cardinality(Touched(probe.this, probe.surfaces)) = 1
     /\ \A i \in Touched(probe.this, probe.surfaces) :
            MovesTowardX(probe.this, probe.surfaces[i]))
    => /\ probe.result.dx = -1 * probe.this.dx
       /\ probe.result.dy = probe.this.dy
       /\ probe.result.x = probe.this.x
       /\ probe.result.y = probe.this.y

\* a body right of a wall's centre that went left at speed MaxSpeed and
\* with some dy, and goes right at that speed after the bounce
C7_Witness ==
    /\ probe.op = "horizontalBounce"
    /\ Len(probe.surfaces) = 1
    /\ probe.surfaces[1].kind = "LeftWall"
    /\ touches(probe.this, probe.surfaces[1])
    /\ probe.this.x > probe.surfaces[1].x
    /\ probe.this.dx = -1 * MaxSpeed
    /\ probe.this.dy = 1
    /\ probe.result.dx = MaxSpeed

\* the boxes of a and b have a point in common
BoxesOverlap(a, b) ==
    /\ \E px \in xMin(a)..xMax(a) : px \in xMin(b)..xMax(b)
    /\ \E py \in yMin(a)..yMax(a) : py \in yMin(b)..yMax(b)

\* C9: a.touches(b) equals b.touches(a), and is true exactly when the two
\* bounding boxes have a point in common (their bounds included).
C9_TouchesSymmetric ==
    probe.op = "touches" =>
        /\ probe.ab = probe.ba
        /\ probe.ab <=> BoxesOverlap(probe.a, probe.b)

\* two bodies that touch and share one boundary coordinate only
C9_Witness ==
    /\ probe.op = "touches"
    /\ probe.ab
    /\ probe.ba
    /\ xMax(probe.b) = xMin(probe.a)
    /\ probe.a.xLen # probe.b.xLen

(***************************************************************************)
(* Properties of the running game (Spec).  prev holds the balls and the    *)
(* players as they were when the last step of World.prototype.update       *)
(* began, and pc tells which step that was.                                *)
(***************************************************************************)
\* the ids of a list of balls
IdsOf(list) == {list[j].id : j \in DOMAIN list}

\* the step that has just run is players[i].update(world)
JustUpdatedPlayer(i) == pc = (IF i = 1 THEN "computer" ELSE "balls")

Other(i) == 3 - i

\* the ids both goals hold, one after the other
CaughtIds == players[1].goal.balls \o players[2].goal.balls

\* C1: when a player's update finds a ball of world.balls overlapping that
\* player's goal, the ball leaves world.balls, that goal's tally grows by 1
\* and the other goal's tally stays; no other step changes a tally; no ball
\* is ever held twice by the goals, and no ball held by a goal is in
\* world.balls.
C1_CaughtExactlyOnce ==
    /\ \A i \in {1, 2} :
          JustUpdatedPlayer(i) =>
             /\ \A j \in DOMAIN prev.balls :
                   touches(prev.balls[j], prev.players[i].goal) =>
                      /\ prev.balls[j].id \notin IdsOf(balls)
                      /\ \E k \in DOMAIN players[i].goal.balls :
                             players[i].goal.balls[k] = prev.balls[j].id
                      /\ countBalls(players[i].goal)
                             = countBalls(prev.players[i].goal) + 1
             /\ countBalls(players[Other(i)].goal)
                    = countBalls(prev.players[Other(i)].goal)
             /\ countBalls(players[i].goal) + Len(balls)
                    = countBalls(prev.players[i].goal) + Len(prev.balls)
    /\ pc \notin {"computer", "balls"} =>
          \A i \in {1, 2} : players[i].goal = prev.players[i].goal
    /\ \A k, l \in DOMAIN CaughtIds : CaughtIds[k] = CaughtIds[l] => k = l
    /\ \A k \in DOMAIN CaughtIds : CaughtIds[k] \notin IdsOf(balls)

\* the first goal has just caught a ball that overlapped both goals
C1_Witness ==
    /\ pc = "computer"
    /\ \E j \in DOMAIN prev.balls :
          /\ touches(prev.balls[j], prev.players[1].goal)
          /\ touches(prev.balls[j], prev.players[2].goal)
          /\ prev.balls[j].id \notin IdsOf(balls)
    /\ countBalls(players[1].goal) = 2
    /\ countBalls(players[2].goal) = 0

NoBallInAGoal ==
    \A j \in DOMAIN balls : \A i \in DOMAIN players :
        ~touches(balls[j], players[i].goal)

\* C3 as stated: at the end of every World.update no ball of world.balls
\* overlaps a goal.
C3_NoBallInAGoalWhenRendered ==
    (pc = "idle" /\ frames > 0) => NoBallInAGoal

\* C3 amended: a ball that comes to overlap a goal when the balls are moved,
\* at the end of a World.update, stays in world.balls in that rendered state
\* and is removed by the players' updates of the next World.update: once both
\* players are updated, and before the balls are moved, no ball of
\* world.balls overlaps a goal.
C3_NoBallInAGoalAfterPlayers ==
    pc = "balls" => NoBallInAGoal

\* on the full-height canvas, the players' updates have just emptied the
\* list of balls
C3_Witness ==
    /\ pc = "balls"
    /\ canvas.height = CanvasHeight
    /\ Len(balls) = 0
    /\ countBalls(players[1].goal) + countBalls(players[2].goal) = 1

\* C5: the first statement of World.update adds one ball at (xMiddle,
\* yMiddle), of the configured radius, with dx = 0 and dy = 3, when the list
\* of balls is empty, and no ball otherwise; walls and players are as they
\* were.
C5_SpawnsOneBallWhenNone ==
    pc = "walls" =>
        /\ IF Len(prev.balls) = 0
           THEN /\ Len(balls) = 1
                /\ balls[1].x = xMiddle(canvas)
                /\ balls[1].y = yMiddle(canvas)
                /\ balls[1].radius = ballRadius
                /\ balls[1].xLen = 2 * ballRadius
                /\ balls[1].yLen = 2 * ballRadius
                /\ balls[1].dx = 0
                /\ balls[1].dy = 3
           ELSE balls = prev.balls
        /\ players = prev.players
        /\ walls = InitWalls(canvas)

\* on the full-height canvas, a ball has just been added to an empty list
C5_Witness ==
    /\ pc = "walls"
    /\ canvas.height = CanvasHeight
    /\ Len(prev.balls) = 0
    /\ Len(balls) = 1
    /\ balls[1].id = 2

Clamp(d, m) == IF d > m THEN m ELSE IF d < -m THEN -m ELSE d

\* Computer.update has just run in its tracking case
Tracked ==
    /\ pc = "balls"
    /\ Len(prev.balls) > 0
    /\ prev.balls[1].dy > 0
    /\ prev.players[2].body.y - prev.balls[1].y > minTrackingDistance(canvas)

\* ball.x - paddle.x at the start of the update, clamped to [-7, 7]
TrackingSpeed == Clamp(prev.balls[1].x - prev.players[2].body.x, 7)

\* C6 as stated: after a Computer.update in the tracking case the paddle's
\* dx is ball.x - paddle.x, clamped to [-7, 7].
C6_TrackingSpeedKept ==
    Tracked => players[2].body.dx = TrackingSpeed

\* the walls the computer's paddle touched at the start of the update
WallsTouched == Touched(prev.players[2].body, walls)

\* the clamped speed points toward the centre of wall w, or is 0
AimedAtWall(w) ==
    \/ prev.players[2].body.x <= w.x /\ TrackingSpeed >= 0
    \/ prev.players[2].body.x > w.x /\ TrackingSpeed <= 0

\* C6 amended: after a Computer.update in the tracking case the paddle's dx
\* is ball.x - paddle.x clamped to [-7, 7] when the paddle touches no wall,
\* or touches one wall only and the clamped speed points away from its
\* centre; it is the negation of that value when the paddle touches one wall
\* only and the clamped speed points toward its centre (Paddle.update
\* bounces the paddle off the wall); in every case it has the magnitude of
\* the clamped value.
C6_TrackingSpeedBounced ==
    Tracked =>
        /\ Abs(players[2].body.dx) = Abs(TrackingSpeed)
        /\ WallsTouched = {} => players[2].body.dx = TrackingSpeed
        /\ \A i \in WallsTouched :
              WallsTouched = {i} =>
                  players[2].body.dx = IF AimedAtWall(walls[i])
                                       THEN -1 * TrackingSpeed
                                       ELSE TrackingSpeed

\* the paddle tracked a ball more than 7 away while it touched a wall on
\* that side, and moves away from the wall at speed 7
C6_Witness ==
    /\ Tracked
    /\ Abs(prev.balls[1].x - prev.players[2].body.x) > 7
    /\ \E i \in WallsTouched : AimedAtWall(walls[i])
    /\ players[2].body.dx = -1 * TrackingSpeed

\* every body of the world
Bodies ==
    {balls[j] : j \in DOMAIN balls}
    \cup {players[i].body : i \in DOMAIN players}
    \cup {players[i].goal : i \in DOMAIN players}
    \cup {walls[i] : i \in DOMAIN walls}

\* C8: every ball, paddle, wall and goal has xMin() <= x <= xMax() and
\* yMin() <= y <= yMax(), in every state.
C8_CentreWithinBounds ==
    \A o \in Bodies :
        /\ xMin(o) <= o.x /\ o.x <= xMax(o)
        /\ yMin(o) <= o.y /\ o.y <= yMax(o)

\* a ball has just been moved sideways and the human's paddle is away from
\* the middle
C8_Witness ==
    /\ pc = "idle"
    /\ frames > 0
    /\ Len(balls) = 1
    /\ balls[1].dx # 0
    /\ balls[1].x # prev.balls[1].x
    /\ players[1].body.x # xMiddle(canvas)

\* the paddles as the balls' update sees them
PaddlesOf(ps) == [i \in DOMAIN ps |-> ps[i].body]

RECURSIVE SumDx(_, _)
SumDx(surfaces, I) ==
    IF I = {} THEN 0
    ELSE LET i == CHOOSE i \in I : TRUE
         IN surfaces[i].dx + SumDx(surfaces, I \ {i})

\* the ball's dx once Ball.update has bounced it off the walls
AfterWalls(b) == horizontalBounce(b, walls)

\* C10: in Ball.update the ball's dx, as the walls leave it, is decreased by
\* the dx of every paddle the ball touches, whether dy is reversed or not;
\* and a ball that touches no paddle keeps its dy, wall or no wall.
C10_PaddleDeflects ==
    (pc = "idle" /\ frames > 0) =>
        \A j \in DOMAIN prev.balls :
            LET b == prev.balls[j]
                ps == PaddlesOf(prev.players)
            IN /\ balls[j].dx = AfterWalls(b).dx - SumDx(ps, Touched(b, ps))
               /\ AfterWalls(b).dy = b.dy
               /\ Touched(b, ps) = {} => balls[j].dy = b.dy

\* a ball touched a moving paddle and kept its dy, and its dx changed by the
\* paddle's dx
C10_Witness ==
    /\ pc = "idle"
    /\ frames > 0
    /\ \E j \in DOMAIN prev.balls : \E i \in DOMAIN prev.players :
          /\ touches(prev.balls[j], prev.players[i].body)
          /\ prev.players[i].body.dx # 0
          /\ balls[j].dy = prev.balls[j].dy
          /\ balls[j].dx = prev.balls[j].dx - prev.players[i].body.dx

(***************************************************************************)
(* A game played from a script: the keys held down during each frame are   *)
(* given, the listeners bring keysDown to them between two frames, and the *)
(* frame runs as in Spec.                                                  *)
(***************************************************************************)
HoldLeft == {moveLeftKey}

HoldRight == {moveRightKey}

HoldNone == {}

Frames(keys, n) == [i \in 1..n |-> keys]

\* the keys held in frames 1, 2, ...: the human's paddle meets the ball
\* while it moves, frame after frame, until the ball is faster than the
\* walls' half width
Script ==
    Frames(HoldLeft, 4) \o Frames(HoldRight, 9) \o Frames(HoldNone, 1) \o
    Frames(HoldLeft, 1) \o Frames(HoldNone, 1) \o Frames(HoldLeft, 12) \o
    Frames(HoldRight, 4) \o Frames(HoldLeft, 32) \o Frames(HoldRight, 3) \o
    Frames(HoldLeft, 17) \o Frames(HoldRight, 1) \o Frames(HoldLeft, 57)

\* the keys the script wants held in the next frame
Wanted == IF frames < Len(Script) THEN Script[frames + 1] ELSE {}

InitReplay ==
    /\ Init
    /\ canvas.height = CanvasHeight

ReplayKeyDown ==
    /\ KeyDown
    /\ keysDown' # keysDown
    /\ (keysDown' \ keysDown) \subseteq Wanted

ReplayKeyUp ==
    /\ KeyUp
    /\ keysDown' # keysDown
    /\ (keysDown \ keysDown') \cap Wanted = {}

ReplayFrame ==
    /\ keysDown = Wanted
    /\ EnsureBallUpTo(Len(Script))

NextReplay ==
    \/ ReplayKeyDown
    \/ ReplayKeyUp
    \/ ReplayFrame
    \/ UpdateWalls
    \/ PlayerUpdate
    \/ ComputerUpdate
    \/ UpdateBalls

SpecReplay == InitReplay /\ [][NextReplay]_vars

\* C11: the centre of every ball of world.balls is strictly between the
\* centre of the left wall (x = 0) and the centre of the right wall
\* (x = canvas width - 1), in every state.
C11_BallBetweenWalls ==
    \A j \in DOMAIN balls :
        /\ walls[1].x = 0
        /\ walls[2].x = xLenOf(canvas) - 1
        /\ walls[1].x < balls[j].x
        /\ balls[j].x < walls[2].x

\* Computer.update has just run in its striking case
Struck ==
    /\ pc = "balls"
    /\ Len(prev.balls) > 0
    /\ prev.balls[1].dy > 0
    /\ ~(prev.players[2].body.y - prev.balls[1].y > minTrackingDistance(canvas))
    /\ Abs(prev.balls[1].dx) > 0
    /\ touches(prev.players[2].body, prev.balls[1])

\* C12: the computer's paddle never has a dx beyond [-7, 7]: not after a
\* Computer.update in the tracking case, in the striking case (where it is
\* 4 or -4) or in neither, and not in any other state.
C12_ComputerSpeedBounded ==
    /\ Abs(players[2].body.dx) <= 7
    /\ Struck => Abs(players[2].body.dx) = 4

\* the paddle has just tracked a ball more than 7 to its left, and has dx 7
\* or -7
C12_Witness ==
    /\ Tracked
    /\ prev.balls[1].x - prev.players[2].body.x < -7
    /\ Abs(players[2].body.dx) = 7

\* C13: world.balls never holds more than one ball: a ball is added only
\* by the first statement of World.update and only to an empty list, so
\* the loop of catchBalls, which steps over the ball that follows a removed
\* one, leaves no ball overlapping the goal it has just run for.
C13_AtMostOneBall ==
    /\ Len(balls) <= 1
    /\ Len(balls) > Len(prev.balls) => (pc = "walls" /\ Len(prev.balls) = 0)
    /\ \A i \in {1, 2} :
          JustUpdatedPlayer(i) =>
              \A j \in DOMAIN balls : ~touches(balls[j], players[i].goal)

\* the third ball of a game has just been added, the goals hold the two
\* before it
C13_Witness ==
    /\ pc = "walls"
    /\ Len(prev.balls) = 0
    /\ Len(balls) = 1
    /\ balls[1].id = 3
    /\ Len(CaughtIds) = 2

\* C14: every ball of the world has |dy| = 3 in every state, and a
\* Ball.update moves the ball's y by its dy, that is by exactly 3 up or
\* down: the bounces on the paddles only negate dy and the bounces on the
\* walls subtract a gradient of 0 from it.
C14_VerticalSpeedThree ==
    /\ \A j \in DOMAIN balls : Abs(balls[j].dy) = defaultDy
    /\ (pc = "idle" /\ frames > 0) =>
          /\ Len(balls) = Len(prev.balls)
          /\ \A j \in DOMAIN balls :
                /\ balls[j].y = prev.balls[j].y + balls[j].dy
                /\ Abs(balls[j].y - prev.balls[j].y) = 3
                /\ Abs(prev.balls[j].dy) = 3
                /\ AfterWalls(prev.balls[j]).dy = prev.balls[j].dy

\* a ball that a paddle has sent upwards has just been updated while it
\* touched a wall
C14_Witness ==
    /\ pc = "idle"
    /\ frames > 0
    /\ Len(balls) = 1
    /\ Touched(prev.balls[1], walls) # {}
    /\ balls[1].dy = -3
    /\ balls[1].y = prev.balls[1].y - 3
====
